---- MODULE Spec2Model ----
(***************************************************************************)
(* A model of the Interactive Brokers statement parser                     *)
(* (src/src/broker_statement/ib/mod.rs), of dividend reconciliation        *)
(* (src/src/broker_statement/dividends.rs), of the statement builder       *)
(* (src/src/broker_statement/mod.rs) and of telemetry sending              *)
(* (src/src/telemetry.rs).                                                 *)
(*                                                                         *)
(* Four specifications share the module, one per part of the program:      *)
(*   SpecDispatch   the 'state loop of StatementParser::parse              *)
(*   SpecDiv        one call of process_dividend_accruals                  *)
(*   SpecFinal      the handlers' effects and the end of parse             *)
(*   SpecTelemetry  one Telemetry instance from new to close               *)
(* Each leaves the variables of the other parts at their initial values,   *)
(* but for SpecDispatch, whose handlers store what they read in dividends. *)
(***************************************************************************)
EXTENDS Integers, Sequences, FiniteSets, TLC

VARIABLES
    records,    \* the rows records.next() has returned so far, in order
    state,      \* the loop's state: [tag, rec], rec an index into records
    calls,      \* the handler invocations made so far, in order
    error,      \* the error parse returned, or NoError
    accruals,   \* SpecDiv: the transactions recorded for the dividend at hand
    taxes,      \* the tax accruals: a map from TaxId to its transactions
    cash_flow_details,  \* SpecDiv: the cash_flow_details argument
    out,        \* SpecDiv: the call of process_dividend_accruals made, or NotCalled
    dividends,  \* the dividend accruals: [id, accruals], in the order first seen
    statement,  \* the BrokerStatementBuilder the handlers write into
    base_currency_summary,  \* Option<Cash>
    handled,    \* SpecFinal: the number of handler invocations made
    result,     \* SpecFinal: what parse returned, or NotReturned
    db,         \* the telemetry table: the ids of the records stored
    tpc,        \* where the thread that owns the Telemetry is
    sender,     \* Telemetry.sender: None, or the sender thread's deadline
    thread,     \* the sender thread: its request, and how the request went
    joiner,     \* the joiner thread of wait_sender: "none", "spawned", "done"
    cell,       \* the result shared by wait_sender and the joiner thread
    now,        \* the clock (Instant::now())
    hist        \* what Telemetry::new loaded and what close deleted

dvars == <<records, state, calls, error>>
avars == <<accruals, taxes, cash_flow_details, out>>
fvars == <<dividends, statement, base_currency_summary, handled, result>>

tvars == <<db, tpc, sender, thread, joiner, cell, now, hist>>

vars == <<records, state, calls, error, accruals, taxes, cash_flow_details, out,
          dividends, statement, base_currency_summary, handled, result,
          db, tpc, sender, thread, joiner, cell, now, hist>>

\* What the actions of each part leave alone: the other parts' variables.
others_d == <<avars, fvars, tvars>>
others_b == <<avars, statement, base_currency_summary, handled, result, tvars>>
others_a == <<dvars, fvars, tvars>>
others_f == <<records, state, error, accruals, cash_flow_details, out, tvars>>
others_t == <<dvars, avars, fvars>>
others_s == <<records, state, error, avars, dividends, base_currency_summary, tvars>>

(***************************************************************************)
(* Bounds.                                                                 *)
(***************************************************************************)
MaxRows == 4
MaxTx == 4
MaxHandled == 5
MaxStored == 3
MaxAdded == 2
MaxTime == 2

(***************************************************************************)
(* Rows.  A row is a sequence of text fields (csv::StringRecord, read with *)
(* flexible(true), so rows may have any length).  The rows the reader may  *)
(* return are drawn from this set.                                         *)
(***************************************************************************)
Rows ==
    { <<"Dividends", "Header", "Currency", "Amount">>,
      <<"Dividends", "Header", "Amount", "Currency">>,
      <<"Dividends", "Data", "USD", "100">>,
      <<"Dividends", "Data", "USD", "abc">>,
      <<"Dividends", "Total", "", "100">>,
      <<"Dividends", "", "x">>,
      <<"Dividends", "Bogus", "x">>,
      <<"Foo", "Header", "A">>,
      <<"Foo", "Data", "1">>,
      <<"Foo", "">>,
      <<"Foo">>,
      <<"Dividends">> }

NoError == [kind |-> "none", row |-> 0]
Err(kind, row) == [kind |-> kind, row |-> row]

None == [some |-> FALSE]
Some(v) == [some |-> TRUE, value |-> v]

\* record.get(i), zero-based as in the source
Get(record, i) == record[i + 1]

\* record.iter().skip(n).collect()
Skip(record, n) == [i \in 1..(Len(record) - n) |-> record[i + n]]

\* parse_header: the section name and the fields after the first two
parse_header_skip1(record) == [name |-> Get(record, 0), fields |-> Skip(record, 1)]

parse_header_no_fields(record) == [name |-> Get(record, 0), fields |-> <<>>]

parse_header(record) == [name |-> Get(record, 0), fields |-> Skip(record, 2)]

\* The handler registry: the parser chosen for a section name.
Registry ==
    { "Statement", "Account Information", "Change in NAV", "Cash Report",
      "Open Positions", "Trades", "Deposits & Withdrawals", "Dividends",
      "Withholding Tax", "Financial Instrument Information" }

ParserForDefaultDividends(name) == IF name \in Registry THEN name ELSE "Dividends"

ParserFor(name) == IF name \in Registry THEN name ELSE "Unknown"

\* RecordParser::data_types: the allow-list of discriminators, if any.
data_types(parser) ==
    IF parser = "Unknown" THEN None ELSE Some({"Data"})

\* RecordParser::skip_data_types: the skip-list of discriminators, if any.
skip_data_types(parser) ==
    IF parser \in {"Dividends", "Withholding Tax", "Trades", "Open Positions"}
    THEN Some({"Total"})
    ELSE None

\* The index of a field name in a header's field list, 0 when absent.
FieldIndex(fields, f) ==
    IF \E i \in 1..Len(fields) : fields[i] = f
    THEN CHOOSE i \in 1..Len(fields) : fields[i] = f
    ELSE 0

Numeric == {"100", "1"}

\* RecordParser::parse: whether the handler accepts the record.  The dividends
\* handler reads the "Amount" field by name and parses it as a number; the
\* handler of an unknown section reads nothing.
ParserParse(parser, fields, values) ==
    IF parser = "Dividends"
    THEN LET i == FieldIndex(fields, "Amount")
         IN  i > 0 /\ i + 2 <= Len(values) /\ values[i + 2] \in Numeric
    ELSE TRUE

\* RecordParser::parse: what the handler writes.  The dividends handler
\* stores the amount it read; the handler of an unknown section stores nothing.
ParserStore(parser, fields, values, i, stored) ==
    IF parser = "Dividends" /\ ParserParse(parser, fields, values)
    THEN Append(stored, [row |-> i, amount |-> values[FieldIndex(fields, "Amount") + 2]])
    ELSE stored

St(tag, rec) == [tag |-> tag, rec |-> rec]

(***************************************************************************)
(* The 'state loop of StatementParser::parse.                              *)
(***************************************************************************)
DispatchIdle ==
    /\ records = <<>>
    /\ state = St("None", 0)
    /\ calls = <<>>
    /\ error = NoError

EmptyMap == [k \in {} |-> <<>>]
NotCalled == [called |-> FALSE]

AccrualsIdle ==
    /\ accruals = <<>>
    /\ taxes = EmptyMap
    /\ cash_flow_details = FALSE
    /\ out = NotCalled

NotReturned == [tag |-> "none"]

\* BrokerStatementBuilder::new
NewBuilder ==
    [period |-> None, total_value |-> None, cash_assets |-> EmptyMap,
     deposits |-> <<>>, dividends |-> <<>>, instrument_names |-> EmptyMap]

\* StatementReader::read: the parser as constructed.
FinalIdle ==
    /\ dividends = <<>>
    /\ statement = NewBuilder
    /\ base_currency_summary = None
    /\ handled = 0
    /\ result = NotReturned

NoThread == [status |-> "none"]
NoHistory == [constructed |-> FALSE]

\* No Telemetry is constructed.
TelemetryIdle ==
    /\ db = {}
    /\ tpc = "start"
    /\ sender = None
    /\ thread = NoThread
    /\ joiner = "none"
    /\ cell = None
    /\ now = 0
    /\ hist = NoHistory

\* StatementReader::read: the parser as constructed, before the first row.
DispatchInit ==
    /\ DispatchIdle
    /\ AccrualsIdle
    /\ FinalIdle
    /\ TelemetryIdle

\* Lines 84 and 121, 157: records.next() returned None while the loop was in
\* the state tag: the loop is left (break) for the end of parse.
end_of_input_fails_in_body(tag) ==
    IF tag = "Body"
    THEN [state |-> St("Failed", 0), error |-> Err("Unexpected end of input", 0)]
    ELSE [state |-> St("Finalize", 0), error |-> NoError]

end_of_input(tag) == [state |-> St("Finalize", 0), error |-> NoError]

\* State::None: read the next row, leave the loop at the end of input (break),
\* or fail on a read error (result?).
ReadNone ==
    /\ state.tag = "None"
    /\ \/ /\ Len(records) < MaxRows
          /\ \E r \in Rows :
                /\ records' = Append(records, r)
                /\ state' = St("Record", Len(records) + 1)
          /\ UNCHANGED <<calls, error>>
       \/ /\ state' = end_of_input(state.tag).state
          /\ error' = IF end_of_input(state.tag).error = NoError
                      THEN error ELSE end_of_input(state.tag).error
          /\ UNCHANGED <<records, calls>>
       \/ /\ state' = St("Failed", 0)
          /\ error' = Err("csv error", 0)
          /\ UNCHANGED <<records, calls>>
    /\ UNCHANGED others_d

\* Lines 88-99: what the State::Record arm makes of a row: "Header" (the
\* row opens a section), "None" (a headerless row, passed over) or "Failed".
ClassifyShortAsHeaderless(record) ==
    IF Len(record) < 2 THEN "None"
    ELSE IF Get(record, 1) = "Header" THEN "Header"
    ELSE IF Get(record, 1) = "" THEN "None"
    ELSE "Failed"

ClassifyLenient(record) ==
    IF Len(record) < 2 THEN "Failed"
    ELSE IF Get(record, 1) = "Header" THEN "Header"
    ELSE "None"

ClassifyStrict(record) ==
    IF Len(record) < 2 THEN "Failed"
    ELSE IF Get(record, 1) = "Header" THEN "Header"
    ELSE "Failed"

Classify(record) ==
    IF Len(record) < 2 THEN "Failed"
    ELSE IF Get(record, 1) = "Header" THEN "Header"
    ELSE IF Get(record, 1) = "" THEN "None"
    ELSE "Failed"

\* State::Record: a row read while no section is open.
ClassifyRecord ==
    /\ state.tag = "Record"
    /\ LET record == records[state.rec]
           to     == Classify(record)
       IN  IF to = "Header"
           THEN /\ state' = St("Header", state.rec)
                /\ UNCHANGED error
           ELSE IF to = "None"
           THEN /\ state' = St("None", 0)
                /\ UNCHANGED error
           ELSE /\ state' = St("Failed", 0)
                /\ error' = Err("Invalid record", state.rec)
    /\ UNCHANGED <<records, calls>>
    /\ UNCHANGED others_d

\* State::Header: parse the header and choose the parser; the rows of the
\* section are then read by BodyNext.
OpenSection ==
    /\ state.tag = "Header"
    /\ state' = St("Body", state.rec)
    /\ UNCHANGED <<records, calls, error>>
    /\ UNCHANGED others_d

\* Lines 136-146: what the skip-list and the allow-list say of a body row's
\* discriminator: "skip" (continue), "invalid" (return Err) or "parse".
DispositionSkipEmpty(parser, kind) ==
    LET skip  == skip_data_types(parser)
        allow == data_types(parser)
    IN  IF kind = "" \/ (skip.some /\ kind \in skip.value) THEN "skip"
        ELSE IF allow.some /\ kind \notin allow.value THEN "invalid"
        ELSE "parse"

DispositionAllowFirst(parser, kind) ==
    LET skip  == skip_data_types(parser)
        allow == data_types(parser)
    IN  IF allow.some /\ kind \notin allow.value THEN "invalid"
        ELSE IF skip.some /\ kind \in skip.value THEN "skip"
        ELSE "parse"

Disposition(parser, kind) ==
    LET skip  == skip_data_types(parser)
        allow == data_types(parser)
    IN  IF skip.some /\ kind \in skip.value THEN "skip"
        ELSE IF allow.some /\ kind \notin allow.value THEN "invalid"
        ELSE "parse"

\* Lines 128-134: the state a row that closes the open section is handed to
\* (continue 'state), or None when the row belongs to the section's body.
HandOverNever(record, name, i) == None

HandOverDrop(record, name, i) ==
    IF Get(record, 0) # name THEN Some(St("None", 0))
    ELSE IF Get(record, 1) = "Header" THEN Some(St("Header", i))
    ELSE None

HandOver(record, name, i) ==
    IF Get(record, 0) # name THEN Some(St("Record", i))
    ELSE IF Get(record, 1) = "Header" THEN Some(St("Header", i))
    ELSE None

\* Lines 148-154: the error parse returns when the handler failed on row i
\* (map_err(...)?), or None.
parse_error_swallowed(ok, i) == None

parse_error(ok, i) == IF ok THEN None ELSE Some(Err("Failed to parse", i))

\* What one iteration of the while loop does with the row at index i.
BodyRow(i, record) ==
    LET header == parse_header(records[state.rec])
        name   == header.name
        parser == ParserFor(name)
    IN  IF Len(record) < 2
        THEN /\ state' = St("Failed", 0)
             /\ error' = Err("Invalid record", i)
             /\ UNCHANGED <<calls, dividends>>
        ELSE IF HandOver(record, name, i).some
        THEN /\ state' = HandOver(record, name, i).value
             /\ UNCHANGED <<calls, error, dividends>>
        ELSE IF Disposition(parser, Get(record, 1)) = "skip"
        THEN UNCHANGED <<state, calls, error, dividends>>
        ELSE IF Disposition(parser, Get(record, 1)) = "invalid"
        THEN /\ state' = St("Failed", 0)
             /\ error' = Err("Invalid data record type", i)
             /\ UNCHANGED <<calls, dividends>>
        ELSE /\ calls' = Append(calls, [row |-> i, parser |-> parser,
                                        name |-> name, fields |-> header.fields])
             /\ dividends' = ParserStore(parser, header.fields, record, i, dividends)
             /\ LET failed == parse_error(ParserParse(parser, header.fields, record), i)
                IN  IF failed.some
                    THEN /\ state' = St("Failed", 0)
                         /\ error' = failed.value
                    ELSE UNCHANGED <<state, error>>

\* One iteration of the while loop of an open section: the next row, the end
\* of input (break), or a read error.
BodyNext ==
    /\ state.tag = "Body"
    /\ \/ /\ Len(records) < MaxRows
          /\ \E r \in Rows :
                /\ records' = Append(records, r)
                /\ BodyRow(Len(records) + 1, r)
       \/ /\ state' = end_of_input(state.tag).state
          /\ error' = IF end_of_input(state.tag).error = NoError
                      THEN error ELSE end_of_input(state.tag).error
          /\ UNCHANGED <<records, calls, dividends>>
       \/ /\ state' = St("Failed", 0)
          /\ error' = Err("csv error", 0)
          /\ UNCHANGED <<records, calls, dividends>>
    /\ UNCHANGED others_b

DispatchNext ==
    \/ ReadNone
    \/ ClassifyRecord
    \/ OpenSection
    \/ BodyNext

(***************************************************************************)
(* Accruals.  Amounts are decimals, kept here as integers in tenths of a   *)
(* currency unit (225 is 22.5).                                            *)
(***************************************************************************)
Cash(currency, amount) == [currency |-> currency, amount |-> amount]
Neg(cash) == Cash(cash.currency, 0 - cash.amount)
Tx(date, currency, amount) == [date |-> date, cash |-> Cash(currency, amount)]
Id(date, issuer) == [date |-> date, issuer |-> issuer]

Ids == { Id(1, "AAA"), Id(1, "BBB") }

\* The transactions a dividend row, and a withholding tax row, may record.
DividendTransactions ==
    { Tx(1, "USD", 1000), Tx(2, "USD", 500), Tx(2, "USD", -1000), Tx(1, "EUR", 1000) }
TaxTransactions ==
    { Tx(1, "USD", 225), Tx(2, "USD", -225), Tx(1, "EUR", 225) }

RECURSIVE SumAmounts(_)
SumAmounts(txs) ==
    IF txs = <<>> THEN 0 ELSE Head(txs).cash.amount + SumAmounts(Tail(txs))

Currencies(txs) == { txs[i].cash.currency : i \in 1..Len(txs) }

\* Payments::get_result: the net amount of an accrual's transactions (None
\* when they net to zero) with the transactions, or a currency error.
get_result(txs) ==
    IF Cardinality(Currencies(txs)) > 1
    THEN [ok |-> FALSE]
    ELSE LET currency == CHOOSE c \in Currencies(txs) : TRUE
             total    == SumAmounts(txs)
         IN  [ok |-> TRUE,
              amount |-> IF total = 0 THEN None ELSE Some(Cash(currency, total)),
              transactions |-> txs]

\* HashMap::remove: the map without the key.
Remove(map, key) == [k \in (DOMAIN map) \ {key} |-> map[k]]

DividendFlowsOfFirst(txs, issuer) ==
    IF txs = <<>> THEN <<>>
    ELSE <<[date |-> txs[1].date, amount |-> txs[1].cash,
            type_ |-> [kind |-> "Dividend", issuer |-> issuer]]>>

DividendFlows(txs, issuer) ==
    [i \in 1..Len(txs) |->
        [date |-> txs[i].date, amount |-> txs[i].cash,
         type_ |-> [kind |-> "Dividend", issuer |-> issuer]]]

TaxFlowsNotNegated(txs, issuer) ==
    [i \in 1..Len(txs) |->
        [date |-> txs[i].date, amount |-> txs[i].cash,
         type_ |-> [kind |-> "Tax", issuer |-> issuer]]]

TaxFlows(txs, issuer) ==
    [i \in 1..Len(txs) |->
        [date |-> txs[i].date, amount |-> Neg(txs[i].cash),
         type_ |-> [kind |-> "Tax", issuer |-> issuer]]]

Failure(kind, id) == [ok |-> FALSE, error |-> kind, id |-> id]

\* Lines 63-66: accruals.get_result() of the dividend's accruals.
dividend_result_first_only(div_accruals) == get_result(<<Head(div_accruals)>>)

dividend_result(div_accruals) == get_result(div_accruals)

\* Line 98: paid_tax.unwrap_or_else(|| Cash::new(amount.currency, dec!(0)))
paid_tax_in_gross_currency(paid_tax, amount) ==
    IF paid_tax.some THEN Cash(amount.currency, paid_tax.value.amount)
    ELSE Cash(amount.currency, 0)

paid_tax_or_usd_zero(paid_tax, amount) ==
    IF paid_tax.some THEN paid_tax.value ELSE Cash("USD", 0)

paid_tax_always_zero(paid_tax, amount) == Cash(amount.currency, 0)

paid_tax_or_zero(paid_tax, amount) ==
    IF paid_tax.some THEN paid_tax.value ELSE Cash(amount.currency, 0)

\* Line 102: the check made of a dividend whose amount is None.
reversed_with_tax_never(paid_tax) == FALSE

reversed_with_tax(paid_tax) == paid_tax.some

\* Lines 69-73: the result of the tax accrual removed for tax_id, nothing
\* paid and no transactions when there is none.
tax_result_any_currency(tax_map, tax_id) ==
    IF tax_id \in DOMAIN tax_map /\ Cardinality(Currencies(tax_map[tax_id])) = 1
    THEN get_result(tax_map[tax_id])
    ELSE [ok |-> TRUE, amount |-> None, transactions |-> <<>>]

tax_result(tax_map, tax_id) ==
    IF tax_id \in DOMAIN tax_map
    THEN get_result(tax_map[tax_id])
    ELSE [ok |-> TRUE, amount |-> None, transactions |-> <<>>]

\* process_dividend_accruals: the result, and the tax map it leaves.
process_dividend_accruals(dividend, div_accruals, tax_map, details) ==
    LET gross == dividend_result(div_accruals)
    IN  IF ~gross.ok
        THEN [result |-> Failure("Failed to process dividend", dividend), taxes |-> tax_map]
        ELSE
        LET tax_id  == Id(dividend.date, dividend.issuer)
            found   == tax_id \in DOMAIN tax_map
            left    == Remove(tax_map, tax_id)
            tax     == tax_result(tax_map, tax_id)
        IN  IF ~tax.ok
            THEN [result |-> Failure("Failed to process tax", tax_id), taxes |-> left]
            ELSE
            LET cash_flows ==
                    IF details
                    THEN DividendFlows(gross.transactions, dividend.issuer)
                            \o TaxFlows(tax.transactions, dividend.issuer)
                    ELSE <<>>
            IN  IF gross.amount.some
                THEN [result |->
                        [ok |-> TRUE,
                         dividend |-> Some(
                            [date |-> dividend.date,
                             issuer |-> dividend.issuer,
                             amount |-> gross.amount.value,
                             paid_tax |-> paid_tax_or_zero(tax.amount, gross.amount.value),
                             skip_from_cash_flow |-> details]),
                         cash_flows |-> cash_flows],
                      taxes |-> left]
                ELSE IF reversed_with_tax(tax.amount)
                THEN [result |-> Failure("Got paid tax for reversed dividend", dividend),
                      taxes |-> left]
                ELSE [result |-> [ok |-> TRUE, dividend |-> None, cash_flows |-> cash_flows],
                      taxes |-> left]

(***************************************************************************)
(* SpecDiv: transactions are recorded for one dividend and for the tax     *)
(* accruals, then process_dividend_accruals is called once.                *)
(***************************************************************************)
\* The call made: its dividend id, the tax map passed in, and the result.
Called(dividend, tax_map, res) ==
    [called |-> TRUE, dividend |-> dividend, taxes |-> tax_map, result |-> res]

DivInit ==
    /\ accruals = <<>>
    /\ taxes = EmptyMap
    /\ cash_flow_details \in BOOLEAN
    /\ out = NotCalled
    /\ DispatchIdle
    /\ FinalIdle
    /\ TelemetryIdle

RECURSIVE CountTx(_)
CountTx(map) ==
    IF DOMAIN map = {} THEN 0
    ELSE LET k == CHOOSE k \in DOMAIN map : TRUE
         IN  Len(map[k]) + CountTx(Remove(map, k))

\* The map with tx recorded under key: appended to the key's accrual, which is
\* created when the key is new.
Record(map, key, tx) ==
    [k \in DOMAIN map \cup {key} |->
        IF k = key
        THEN (IF key \in DOMAIN map THEN Append(map[key], tx) ELSE <<tx>>)
        ELSE map[k]]

\* A dividend row: one more transaction of the dividend at hand.
RecordDividend ==
    /\ ~out.called
    /\ Len(accruals) + CountTx(taxes) < MaxTx
    /\ \E tx \in DividendTransactions : accruals' = Append(accruals, tx)
    /\ UNCHANGED <<taxes, cash_flow_details, out>>
    /\ UNCHANGED others_a

\* A withholding tax row: one more transaction under a tax id.
RecordTax ==
    /\ ~out.called
    /\ Len(accruals) + CountTx(taxes) < MaxTx
    /\ \E id \in Ids, tx \in TaxTransactions : taxes' = Record(taxes, id, tx)
    /\ UNCHANGED <<accruals, cash_flow_details, out>>
    /\ UNCHANGED others_a

\* The dividend whose accruals SpecDiv processes.
TheDividend == Id(1, "AAA")

Process ==
    /\ ~out.called
    /\ accruals # <<>>
    /\ LET r == process_dividend_accruals(TheDividend, accruals, taxes, cash_flow_details)
       IN  /\ out' = Called(TheDividend, taxes, r.result)
           /\ taxes' = r.taxes
    /\ UNCHANGED <<accruals, cash_flow_details>>
    /\ UNCHANGED others_a

DivNext ==
    \/ RecordDividend
    \/ RecordTax
    \/ Process

(***************************************************************************)
(* SpecFinal: the handlers write into the parser (in any order, as the     *)
(* rows of a statement may come), then the end of parse runs.              *)
(***************************************************************************)
FinalInit ==
    /\ FinalIdle
    /\ taxes = EmptyMap
    /\ accruals = <<>>
    /\ cash_flow_details = FALSE
    /\ out = NotCalled
    /\ DispatchIdle
    /\ TelemetryIdle

ParseErr(kind, detail) == [tag |-> "err", error |-> kind, detail |-> detail]
ParseOk(st) == [tag |-> "ok", statement |-> st]

\* set_option: the error, or the option with the value stored.
set_option_overwriting(name, option, value) ==
    IF option.some
    THEN [ok |-> FALSE, error |-> <<"Duplicate", name>>, option |-> Some(value)]
    ELSE [ok |-> TRUE, option |-> Some(value)]

set_option(name, option, value) ==
    IF option.some
    THEN [ok |-> FALSE, error |-> <<"Duplicate", name>>, option |-> option]
    ELSE [ok |-> TRUE, option |-> Some(value)]

\* get_option
get_option(name, option) ==
    IF option.some THEN [ok |-> TRUE, value |-> option.value]
    ELSE [ok |-> FALSE, error |-> <<name, "is missing">>]

\* cash_assets.deposit(amount)
Deposit(assets, cash) ==
    [c \in DOMAIN assets \cup {cash.currency} |->
        IF c = cash.currency
        THEN (IF c \in DOMAIN assets THEN assets[c] + cash.amount ELSE cash.amount)
        ELSE assets[c]]

\* The values the rows of a statement may carry.
Periods == {"2018", "2019"}
TotalValues == {Cash("USD", 9000)}
CashBalances == {Cash("USD", 700), Cash("EUR", 300)}
Summaries == {Cash("USD", 700)}
FinalDividendTransactions == {Tx(1, "USD", 1000), Tx(2, "USD", -1000), Tx(1, "EUR", 1000)}
FinalTaxTransactions == {Tx(1, "USD", 225), Tx(2, "USD", -225), Tx(1, "EUR", 225)}

Parsing == result = NotReturned /\ handled < MaxHandled

\* A handler returned an error: parse returns it (line 152-154).
HandlerFailed(err) == ParseErr("Failed to parse", err)

\* The vector with tx recorded under id: in the id's entry, which is pushed
\* when the id is new.
RecordInVec(vec, id, tx) ==
    IF \E i \in 1..Len(vec) : vec[i].id = id
    THEN [i \in 1..Len(vec) |->
            IF vec[i].id = id
            THEN [id |-> id, accruals |-> Append(vec[i].accruals, tx)]
            ELSE vec[i]]
    ELSE Append(vec, [id |-> id, accruals |-> <<tx>>])

\* A row of "Dividends".
HandleDividend ==
    /\ Parsing
    /\ \E id \in Ids, tx \in FinalDividendTransactions :
          dividends' = RecordInVec(dividends, id, tx)
    /\ handled' = handled + 1
    /\ UNCHANGED <<calls, taxes, statement, base_currency_summary, result>>
    /\ UNCHANGED others_f

\* The tax key recorded for the first time, as calls keeps it.
FirstRecorded(id) == [handler |-> "Withholding Tax", id |-> id]

\* A row of "Withholding Tax".  calls keeps the keys in the order in which
\* they were first recorded (the map itself keeps no order).
HandleTax ==
    /\ Parsing
    /\ \E id \in Ids, tx \in FinalTaxTransactions :
          /\ taxes' = Record(taxes, id, tx)
          /\ calls' = IF id \in DOMAIN taxes THEN calls
                      ELSE Append(calls, FirstRecorded(id))
    /\ handled' = handled + 1
    /\ UNCHANGED <<dividends, statement, base_currency_summary, result>>
    /\ UNCHANGED others_f

\* A row of "Cash Report" with the balance of one currency.
HandleCashBalance ==
    /\ Parsing
    /\ \E cash \in CashBalances :
          statement' = [statement EXCEPT !.cash_assets = Deposit(@, cash)]
    /\ handled' = handled + 1
    /\ UNCHANGED <<calls, dividends, taxes, base_currency_summary, result>>
    /\ UNCHANGED others_f

\* The row of "Cash Report" with the base currency summary.
HandleBaseSummary ==
    /\ Parsing
    /\ \E cash \in Summaries :
          LET r == set_option("base currency summary", base_currency_summary, cash)
          IN  /\ base_currency_summary' = r.option
              /\ result' = IF r.ok THEN result ELSE HandlerFailed(r.error)
    /\ handled' = handled + 1
    /\ UNCHANGED <<calls, dividends, taxes, statement>>
    /\ UNCHANGED others_f

\* BrokerStatementBuilder::set_period, called for a row of "Statement".
set_period(builder, period) ==
    LET r == set_option("statement period", builder.period, period)
    IN  [ok |-> r.ok, error |-> IF r.ok THEN <<>> ELSE r.error,
         builder |-> [builder EXCEPT !.period = r.option]]

HandlePeriod ==
    /\ Parsing
    /\ \E period \in Periods :
          LET r == set_period(statement, period)
          IN  /\ statement' = r.builder
              /\ result' = IF r.ok THEN result ELSE HandlerFailed(r.error)
    /\ handled' = handled + 1
    /\ UNCHANGED <<calls, dividends, taxes, base_currency_summary>>
    /\ UNCHANGED others_f

\* The row of "Change in NAV" with the total value.
HandleTotalValue ==
    /\ Parsing
    /\ \E value \in TotalValues :
          LET r == set_option("total value", statement.total_value, value)
          IN  /\ statement' = [statement EXCEPT !.total_value = r.option]
              /\ result' = IF r.ok THEN result ELSE HandlerFailed(r.error)
    /\ handled' = handled + 1
    /\ UNCHANGED <<calls, dividends, taxes, base_currency_summary>>
    /\ UNCHANGED others_f

\* parse_dividends: every dividend accrual in the order of the vector is
\* reconciled with the tax accruals; the first error ends it.
RECURSIVE parse_dividends(_, _)
parse_dividends(vec, tax_map) ==
    IF vec = <<>>
    THEN [ok |-> TRUE, dividends |-> <<>>, taxes |-> tax_map]
    ELSE LET r == process_dividend_accruals(Head(vec).id, Head(vec).accruals,
                                            tax_map, FALSE)
         IN  IF ~r.result.ok
             THEN [ok |-> FALSE, error |-> r.result, taxes |-> r.taxes]
             ELSE LET rest == parse_dividends(Tail(vec), r.taxes)
                  IN  IF ~rest.ok THEN rest
                      ELSE [ok |-> TRUE,
                            dividends |->
                                (IF r.result.dividend.some
                                 THEN <<r.result.dividend.value>> ELSE <<>>)
                                    \o rest.dividends,
                            taxes |-> rest.taxes]

\* The sequences that list every element of S once.
Listings(S) ==
    { f \in [1..Cardinality(S) -> S] : \A i, j \in 1..Cardinality(S) : f[i] = f[j] => i = j }

\* Lines 164-169: the cash assets after the fallback to the base currency
\* summary, or the error.
cash_fallback_always(assets, summary) ==
    IF ~summary.some
    THEN [ok |-> (DOMAIN assets # {}), assets |-> assets]
    ELSE [ok |-> TRUE, assets |-> Deposit(assets, summary.value)]

cash_fallback_no_error(assets, summary) ==
    IF DOMAIN assets = {} /\ summary.some
    THEN [ok |-> TRUE, assets |-> Deposit(assets, summary.value)]
    ELSE [ok |-> TRUE, assets |-> assets]

cash_fallback(assets, summary) ==
    IF DOMAIN assets = {}
    THEN IF ~summary.some
         THEN [ok |-> FALSE, assets |-> assets]
         ELSE [ok |-> TRUE, assets |-> Deposit(assets, summary.value)]
    ELSE [ok |-> TRUE, assets |-> assets]

\* Lines 174-178: the listings of the taxes left that the error may carry
\* (a HashMap yields its keys in no particular order).
orphan_listings_first_only(tax_map) == { <<id>> : id \in DOMAIN tax_map }

orphan_listings(tax_map) == Listings(DOMAIN tax_map)

\* Line 173: !self.taxes.is_empty()
taxes_left_never(tax_map) == FALSE

taxes_left(tax_map) == DOMAIN tax_map # {}

\* BrokerStatementBuilder::get
get_total_value_first(builder) ==
    LET period == get_option("statement period", builder.period)
        total  == get_option("total value", builder.total_value)
    IN  IF ~total.ok THEN ParseErr("missing", total.error)
        ELSE IF ~period.ok THEN ParseErr("missing", period.error)
        ELSE ParseOk([period |-> period.value,
                      total_value |-> total.value,
                      cash_assets |-> builder.cash_assets,
                      deposits |-> builder.deposits,
                      dividends |-> builder.dividends,
                      instrument_names |-> builder.instrument_names])

get(builder) ==
    LET period == get_option("statement period", builder.period)
        total  == get_option("total value", builder.total_value)
    IN  IF ~period.ok THEN ParseErr("missing", period.error)
        ELSE IF ~total.ok THEN ParseErr("missing", total.error)
        ELSE ParseOk([period |-> period.value,
                      total_value |-> total.value,
                      cash_assets |-> builder.cash_assets,
                      deposits |-> builder.deposits,
                      dividends |-> builder.dividends,
                      instrument_names |-> builder.instrument_names])

FinishReconcilingFirst(listing) ==
    LET parsed == parse_dividends(dividends, taxes)
    IN  IF ~parsed.ok
        THEN ParseErr("dividends", parsed.error)
        ELSE IF taxes_left(parsed.taxes)
        THEN ParseErr("Unable to find origin operations for the following taxes", listing)
        ELSE
        LET cash == cash_fallback(statement.cash_assets, base_currency_summary)
        IN  IF ~cash.ok
            THEN ParseErr("Unable to find base currency summary", <<>>)
            ELSE get([statement EXCEPT !.cash_assets = cash.assets,
                                       !.dividends = parsed.dividends])

\* Lines 162-183: what parse returns once the rows are read, the taxes left
\* being listed as in listing.
Finish(listing) ==
    LET cash == cash_fallback(statement.cash_assets, base_currency_summary)
    IN  IF ~cash.ok
        THEN ParseErr("Unable to find base currency summary", <<>>)
        ELSE
        LET parsed == parse_dividends(dividends, taxes)
        IN  IF ~parsed.ok
            THEN ParseErr("dividends", parsed.error)
            ELSE IF taxes_left(parsed.taxes)
            THEN ParseErr("Unable to find origin operations for the following taxes", listing)
            ELSE get([statement EXCEPT !.cash_assets = cash.assets,
                                       !.dividends = parsed.dividends])

\* The taxes parse_dividends leaves, the empty map when it is not reached.
TaxesLeft ==
    LET parsed == parse_dividends(dividends, taxes)
    IN  IF parsed.ok THEN parsed.taxes ELSE EmptyMap

\* The end of input: the loop is left and parse returns.
Finalize ==
    /\ result = NotReturned
    /\ \E listing \in orphan_listings(TaxesLeft) : result' = Finish(listing)
    /\ UNCHANGED <<calls, dividends, taxes, statement, base_currency_summary, handled>>
    /\ UNCHANGED others_f

FinalNext ==
    \/ HandleDividend
    \/ HandleTax
    \/ HandleCashBalance
    \/ HandleBaseSummary
    \/ HandlePeriod
    \/ HandleTotalValue
    \/ Finalize

SpecFinal == FinalInit /\ [][FinalNext]_vars

(***************************************************************************)
(* SpecBuilder: one BrokerStatementBuilder from new to get.  The handlers  *)
(* write its fields in any order and any number of times; a failed write   *)
(* is logged like a successful one, so that what the builder holds after   *)
(* it is seen.  calls is the log of the writes to the set-once fields.     *)
(***************************************************************************)
BuilderInit ==
    /\ FinalIdle
    /\ DispatchIdle
    /\ AccrualsIdle
    /\ TelemetryIdle

\* The values written into a builder.
BuilderTotalValues == {Cash("USD", 9000), Cash("USD", 9500)}
BuilderDeposits == {Cash("USD", 700)}
BuilderDividend(issuer) ==
    [date |-> 1, issuer |-> issuer, amount |-> Cash("USD", 1000),
     paid_tax |-> Cash("USD", 100)]
BuilderDividends ==
    {<<BuilderDividend("AAA")>>, <<BuilderDividend("AAA"), BuilderDividend("BBB")>>}
BuilderTickers == {"AAA"}
BuilderNames == {"Alpha", "Alpha Inc"}

Building == result = NotReturned /\ handled < MaxHandled

\* The write logged: the field, the value given, and what the call returned.
Written(name, value, r) ==
    [field |-> name, value |-> value, ok |-> r.ok,
     error |-> IF r.ok THEN <<>> ELSE r.error]

\* HashMap::insert
Insert(map, key, value) ==
    [k \in DOMAIN map \cup {key} |-> IF k = key THEN value ELSE map[k]]

\* statement.set_period(period)
BuilderSetPeriod ==
    /\ Building
    /\ \E period \in Periods :
          LET r == set_period(statement, period)
          IN  /\ statement' = r.builder
              /\ calls' = Append(calls, Written("statement period", period, r))
    /\ handled' = handled + 1
    /\ UNCHANGED result
    /\ UNCHANGED others_s

\* set_option("total value", &mut statement.total_value, value)
BuilderSetTotalValue ==
    /\ Building
    /\ \E value \in BuilderTotalValues :
          LET r == set_option("total value", statement.total_value, value)
          IN  /\ statement' = [statement EXCEPT !.total_value = r.option]
              /\ calls' = Append(calls, Written("total value", value, r))
    /\ handled' = handled + 1
    /\ UNCHANGED result
    /\ UNCHANGED others_s

\* statement.deposits.push(deposit)
BuilderDeposit ==
    /\ Building
    /\ \E deposit \in BuilderDeposits :
          statement' = [statement EXCEPT !.deposits = Append(@, deposit)]
    /\ handled' = handled + 1
    /\ UNCHANGED <<calls, result>>
    /\ UNCHANGED others_s

\* statement.dividends = parse_dividends(...)
BuilderSetDividends ==
    /\ Building
    /\ \E parsed \in BuilderDividends :
          statement' = [statement EXCEPT !.dividends = parsed]
    /\ handled' = handled + 1
    /\ UNCHANGED <<calls, result>>
    /\ UNCHANGED others_s

\* statement.instrument_names.insert(ticker, name)
BuilderInstrument ==
    /\ Building
    /\ \E ticker \in BuilderTickers, name \in BuilderNames :
          statement' = [statement EXCEPT !.instrument_names = Insert(@, ticker, name)]
    /\ handled' = handled + 1
    /\ UNCHANGED <<calls, result>>
    /\ UNCHANGED others_s

\* statement.get(): the builder is consumed (it is kept here as it was when
\* get was called).
BuilderGet ==
    /\ result = NotReturned
    /\ result' = get(statement)
    /\ UNCHANGED <<statement, calls, handled>>
    /\ UNCHANGED others_s

BuilderNext ==
    \/ BuilderSetPeriod
    \/ BuilderSetTotalValue
    \/ BuilderDeposit
    \/ BuilderSetDividends
    \/ BuilderInstrument
    \/ BuilderGet

SpecBuilder == BuilderInit /\ [][BuilderNext]_vars

(***************************************************************************)
(* SpecTelemetry: one Telemetry over a table that holds the records of     *)
(* earlier runs: new, the adds, the sender thread, and close.  A record is *)
(* known by its id; ids are given in ascending order and deleted from the  *)
(* low end, so the table holds a range of ids.                             *)
(***************************************************************************)
FlushThresholds == {1, 2}
FlushTimeouts == {1}
MaxRecordsChoices == {0, 1, 2}

TelemetryInit ==
    /\ \E lo \in 1..(MaxStored + 1), hi \in 0..MaxStored : db = lo..hi
    /\ tpc = "start"
    /\ sender = None
    /\ thread = NoThread
    /\ joiner = "none"
    /\ cell = None
    /\ now = 0
    /\ hist = NoHistory
    /\ DispatchIdle
    /\ AccrualsIdle
    /\ FinalIdle

\* The ids of a set in ascending order (order_by(telemetry::id.asc())).
RECURSIVE Ascending(_)
Ascending(S) ==
    IF S = {} THEN <<>>
    ELSE LET m == CHOOSE x \in S : \A y \in S : x <= y
         IN  <<m>> \o Ascending(S \ {m})

\* Telemetry::delete: the table without the ids up to last_record_id.
delete_all(table, last_record_id) == {}

delete(table, last_record_id) == { id \in table : id > last_record_id }

\* Telemetry::load: the table after dropping the records over max_records,
\* and the records to send with the id of the last one, if any.
load_keep_oldest(table, max_records) ==
    LET all   == Ascending(table)
        kept  == IF Len(all) > max_records THEN SubSeq(all, 1, max_records) ELSE all
    IN  [table |-> { kept[i] : i \in 1..Len(kept) },
         loaded |-> IF kept = <<>> THEN None
                    ELSE Some([records |-> kept, last_record_id |-> kept[Len(kept)]])]

load_descending(table, max_records) ==
    LET all   == Ascending(table)
        count == Len(all) - max_records
        kept  == IF Len(all) > max_records
                 THEN SubSeq(all, count + 1, Len(all)) ELSE all
        n     == Len(kept)
    IN  [table |-> { kept[i] : i \in 1..n },
         loaded |-> IF kept = <<>> THEN None
                    ELSE Some([records |-> [i \in 1..n |-> kept[n + 1 - i]],
                               last_record_id |-> kept[n]])]

load(table, max_records) ==
    LET all     == Ascending(table)
        count   == Len(all) - max_records
        kept    == IF Len(all) > max_records
                   THEN SubSeq(all, count + 1, Len(all)) ELSE all
        table2  == IF Len(all) > max_records THEN delete(table, all[count]) ELSE table
    IN  [table |-> table2,
         loaded |-> IF kept = <<>> THEN None
                    ELSE Some([records |-> kept, last_record_id |-> kept[Len(kept)]])]

\* Lines 96-99: the deadline given to the sender of the records loaded.
deadline_always_extended(created, loaded, flush_threshold, flush_timeout) ==
    created + flush_timeout

deadline_for(created, loaded, flush_threshold, flush_timeout) ==
    IF Len(loaded) % flush_threshold = 0 THEN created + flush_timeout ELSE created

\* Telemetry::new
New ==
    /\ tpc = "start"
    /\ \E flush_threshold \in FlushThresholds, flush_timeout \in FlushTimeouts,
          max_records \in MaxRecordsChoices :
          LET l == load(db, max_records)
          IN  /\ db' = l.table
              /\ IF l.loaded.some
                 THEN LET deadline ==
                            deadline_for(now, l.loaded.value.records,
                                         flush_threshold, flush_timeout)
                      IN  /\ sender' = Some([deadline |-> deadline])
                          /\ thread' = [status |-> "pending",
                                        request |-> l.loaded.value.records,
                                        last_record_id |-> l.loaded.value.last_record_id]
                 ELSE /\ sender' = None
                      /\ thread' = NoThread
              /\ hist' = [constructed |-> TRUE,
                          created |-> now,
                          stored |-> db,
                          flush_threshold |-> flush_threshold,
                          flush_timeout |-> flush_timeout,
                          max_records |-> max_records,
                          loaded |-> IF l.loaded.some THEN l.loaded.value.records ELSE <<>>,
                          added |-> {},
                          order |-> Ascending(l.table),
                          requests |-> 0,
                          closing |-> FALSE]
    /\ tpc' = "open"
    /\ UNCHANGED <<joiner, cell, now>>
    /\ UNCHANGED others_t

MaxId(S) == IF S = {} THEN 0 ELSE CHOOSE x \in S : \A y \in S : y <= x

\* Telemetry::add: the record is inserted under the next id.
Add ==
    /\ tpc = "open"
    /\ Cardinality(hist.added) < MaxAdded
    /\ LET id == MaxId(db) + 1
       IN  /\ db' = db \cup {id}
           /\ hist' = [hist EXCEPT !.added = @ \cup {id}, !.order = Append(@, id)]
    /\ UNCHANGED <<tpc, sender, thread, joiner, cell, now>>
    /\ UNCHANGED others_t

\* send: the request is answered with a success status ("ok"), with an error
\* status ("status"), or fails ("fail"); the thread then ends with its value.
SendValueOnAnyAnswer(t) ==
    IF t.status \in {"ok", "status"} THEN Some(t.last_record_id) ELSE None

SendValue(t) == IF t.status = "ok" THEN Some(t.last_record_id) ELSE None

Send ==
    /\ thread.status = "pending"
    /\ tpc # "closed"
    /\ \E answer \in {"ok", "status", "fail"} :
          thread' = [thread EXCEPT !.status = answer] @@ [at |-> now]
    /\ hist' = [hist EXCEPT !.requests = @ + 1]
    /\ UNCHANGED <<db, tpc, sender, joiner, cell, now>>
    /\ UNCHANGED others_t

\* Time passes.
Tick ==
    /\ tpc # "closed"
    /\ now < MaxTime
    /\ now' = now + 1
    /\ UNCHANGED <<db, tpc, sender, thread, joiner, cell, hist>>
    /\ UNCHANGED others_t

\* close_impl, wait_sender up to the loop: without a sender there is nothing
\* to wait for and nothing to delete; with one, the joiner thread is spawned.
CloseBegin ==
    /\ tpc = "open"
    /\ IF sender.some
       THEN /\ tpc' = "waiting"
            /\ joiner' = "spawned"
            /\ hist' = [hist EXCEPT !.closing = TRUE] @@
                       [deadline |-> sender.value.deadline, table |-> db]
       ELSE /\ tpc' = "closed"
            /\ joiner' = joiner
            /\ hist' = [hist EXCEPT !.closing = TRUE] @@
                       [table |-> db, value |-> None]
    /\ sender' = None
    /\ UNCHANGED <<db, thread, cell, now>>
    /\ UNCHANGED others_t

\* The joiner thread: it joins the sender thread and stores its value.
Join ==
    /\ joiner = "spawned"
    /\ thread.status \in {"ok", "status", "fail"}
    /\ tpc # "closed"
    /\ cell' = Some(SendValue(thread))
    /\ joiner' = "done"
    /\ UNCHANGED <<db, tpc, sender, thread, now, hist>>
    /\ UNCHANGED others_t

\* The loop of wait_sender: it is left when the deadline has passed, or when
\* the result is there; otherwise the thread parks.
WaitLoop ==
    /\ tpc = "waiting"
    /\ (now > hist.deadline \/ cell.some)
    /\ tpc' = "taking"
    /\ UNCHANGED <<db, sender, thread, joiner, cell, now, hist>>
    /\ UNCHANGED others_t

\* wait_sender after the loop and the rest of close_impl: the result is
\* taken, and the records up to the id it holds, if any, are deleted.
CloseEnd ==
    /\ tpc = "taking"
    /\ LET value == IF cell.some THEN cell.value ELSE None
       IN  /\ db' = IF value.some THEN delete(db, value.value) ELSE db
           /\ hist' = hist @@ [value |-> value, finished |-> joiner = "done"]
    /\ cell' = None
    /\ tpc' = "closed"
    /\ UNCHANGED <<sender, thread, joiner, now>>
    /\ UNCHANGED others_t

TelemetryNext ==
    \/ New
    \/ Add
    \/ Send
    \/ Tick
    \/ CloseBegin
    \/ Join
    \/ WaitLoop
    \/ CloseEnd

SpecTelemetry == TelemetryInit /\ [][TelemetryNext]_vars

SpecDispatch == DispatchInit /\ [][DispatchNext]_vars

\* The loop is sequential code: while it has not returned it takes its next
\* step.
SpecDispatchFair == DispatchInit /\ [][DispatchNext]_vars /\ WF_vars(DispatchNext)

SpecDiv == DivInit /\ [][DivNext]_vars

(***************************************************************************)
(* The row stream read so far, described without the loop: which header    *)
(* row a row lies under, and what the section's handler lists say of it.   *)
(***************************************************************************)
IsHeaderRow(r) == Len(r) >= 2 /\ r[2] = "Header"
IsDataRow(r) == Len(r) >= 2 /\ r[2] \notin {"Header", ""}

\* Row h is a header row and rows h..i all carry its section name.
InBlock(h, i) ==
    /\ h < i
    /\ IsHeaderRow(records[h])
    /\ \A j \in h..i : records[j][1] = records[h][1]

\* The most recent header row whose block row i lies in, 0 when there is none.
GoverningHeader(i) ==
    IF \E h \in 1..Len(records) : InBlock(h, i)
    THEN CHOOSE h \in 1..Len(records) :
            InBlock(h, i) /\ \A g \in 1..Len(records) : InBlock(g, i) => g <= h
    ELSE 0

\* Some earlier header row carries row i's section name.
PrecededByHeader(i) ==
    \E h \in 1..(i - 1) : IsHeaderRow(records[h]) /\ records[h][1] = records[i][1]

InSkipList(parser, kind) ==
    skip_data_types(parser).some /\ kind \in skip_data_types(parser).value
OutsideAllowList(parser, kind) ==
    data_types(parser).some /\ kind \notin data_types(parser).value
InsideAllowList(parser, kind) ==
    data_types(parser).some /\ kind \in data_types(parser).value
Accepted(parser, kind) == ~InSkipList(parser, kind) /\ ~OutsideAllowList(parser, kind)

CallsFor(i) == { k \in 1..Len(calls) : calls[k].row = i }

\* Row i was handed over once, to the parser registered for its section name,
\* with the fields of the header row h.
HandedOnce(i, h) ==
    /\ Cardinality(CallsFor(i)) = 1
    /\ \A k \in CallsFor(i) :
          /\ calls[k].parser = ParserFor(records[i][1])
          /\ calls[k].fields = SubSeq(records[h], 3, Len(records[h]))

DispatchErrors == {"Invalid record", "Invalid data record type"}

\* Every row has two fields or more, and every row under a header that is not
\* itself a header has a discriminator the section's lists accept.
RowsAccepted ==
    /\ \A i \in 1..Len(records) : Len(records[i]) >= 2
    /\ \A i \in 1..Len(records) :
          (~IsHeaderRow(records[i]) /\ GoverningHeader(i) > 0)
             => Accepted(ParserFor(records[i][1]), records[i][2])

AllDataRowsHandedOnce ==
    /\ error.kind \notin DispatchErrors
    /\ \A i \in 1..Len(records) :
          IsDataRow(records[i]) => /\ GoverningHeader(i) > 0
                                   /\ HandedOnce(i, GoverningHeader(i))

(***************************************************************************)
(* C1 as stated: when every data row is preceded by some header row for    *)
(* its section name (and the rows are otherwise acceptable), parsing ends  *)
(* without a dispatch error and with every data row handed to its handler  *)
(* exactly once with the fields of its section's header.                   *)
(***************************************************************************)
C1_PrecededRowsDispatched ==
    (state.tag \in {"Finalize", "Failed"} /\ RowsAccepted /\ \A i \in 1..Len(records) :
                        IsDataRow(records[i]) => PrecededByHeader(i))
        => AllDataRowsHandedOnce

(***************************************************************************)
(* C1 amended: when every data row lies in the open block of its section   *)
(* (a header row for its section name precedes it with only rows of that   *)
(* section name in between) and the rows are acceptable, parsing raises no *)
(* dispatch error and every data row is handed exactly once to the handler *)
(* registered for its section name, with the field names of the most       *)
(* recent header row of the block.                                         *)
(***************************************************************************)
C1_GovernedRowsDispatched ==
    (RowsAccepted /\ \A i \in 1..Len(records) :
                        IsDataRow(records[i]) => GoverningHeader(i) > 0)
        => AllDataRowsHandedOnce

\* Two sections were read to the end of input and each handler got a row.
C1_Witness ==
    /\ state.tag = "Finalize"
    /\ RowsAccepted
    /\ \A i \in 1..Len(records) : IsDataRow(records[i]) => GoverningHeader(i) > 0
    /\ \E k, l \in 1..Len(calls) :
          calls[k].parser = "Dividends" /\ calls[l].parser = "Unknown"

\* The data rows of an open section: row i, under header row h.
BodyDataRows == { i \in 1..Len(records) : IsDataRow(records[i]) /\ GoverningHeader(i) > 0 }

Aborted(kind, i) == state.tag = "Failed" /\ error = Err(kind, i)

(***************************************************************************)
(* C2 as stated: in an open section a data row whose discriminator is      *)
(* outside the allow-list aborts parsing with 'Invalid data record type',  *)
(* and one whose discriminator is inside the allow-list, or absent from    *)
(* the skip-list, is delivered to the handler.                             *)
(***************************************************************************)
C2_AllowListOnly ==
    \A i \in BodyDataRows :
        LET parser == ParserFor(records[i][1])
            kind   == records[i][2]
        IN  /\ OutsideAllowList(parser, kind) => Aborted("Invalid data record type", i)
            /\ (InsideAllowList(parser, kind) \/ ~InSkipList(parser, kind))
                  => HandedOnce(i, GoverningHeader(i))

(***************************************************************************)
(* C2 amended: in an open section a data row whose discriminator is in the *)
(* skip-list is dropped without error; one absent from the skip-list and   *)
(* outside the allow-list aborts parsing with 'Invalid data record type';  *)
(* one absent from the skip-list and not outside the allow-list is         *)
(* delivered to the handler.                                               *)
(***************************************************************************)
C2_SkipThenAllow ==
    \A i \in BodyDataRows :
        LET parser == ParserFor(records[i][1])
            kind   == records[i][2]
        IN  /\ InSkipList(parser, kind)
                  => CallsFor(i) = {} /\ error.row # i
            /\ (~InSkipList(parser, kind) /\ OutsideAllowList(parser, kind))
                  => CallsFor(i) = {} /\ Aborted("Invalid data record type", i)
            /\ (~InSkipList(parser, kind) /\ ~OutsideAllowList(parser, kind))
                  => HandedOnce(i, GoverningHeader(i))

\* One block with a skipped row, a delivered row and a rejected row.
C2_Witness ==
    /\ \E i, j \in BodyDataRows :
          /\ InSkipList(ParserFor(records[i][1]), records[i][2])
          /\ CallsFor(j) # {}
    /\ error.kind = "Invalid data record type"

(***************************************************************************)
(* The call of process_dividend_accruals made in SpecDiv, described by its *)
(* arguments.                                                              *)
(***************************************************************************)
SingleCurrency(txs) == Cardinality(Currencies(txs)) = 1
NetsToZero(txs) == SingleCurrency(txs) /\ SumAmounts(txs) = 0
NetNonzero(txs) == SingleCurrency(txs) /\ SumAmounts(txs) # 0

TaxPresent == out.dividend \in DOMAIN out.taxes
TaxGiven == out.taxes[out.dividend]

ReturnedNothing == out.result.ok /\ ~out.result.dividend.some
ReturnedDividend == out.result.ok /\ out.result.dividend.some
ReturnedError(kind) == ~out.result.ok /\ out.result.error = kind

(***************************************************************************)
(* C3 as stated: for a dividend accrual that nets to zero the call fails   *)
(* whenever a tax accrual is present under the same key, and returns no    *)
(* Dividend and no error when none is present.                             *)
(***************************************************************************)
C3_ReversedFailsWithAnyTax ==
    (out.called /\ NetsToZero(accruals))
        => IF TaxPresent THEN ~out.result.ok ELSE ReturnedNothing

(***************************************************************************)
(* C3 amended: for a dividend accrual that nets to zero the call fails     *)
(* whenever a tax accrual that does not itself net to zero is present      *)
(* under the same key (with 'Got paid tax for reversed dividend' when the  *)
(* tax has a nonzero net amount), and returns no Dividend and no error     *)
(* when no tax accrual is present under the key or the one present nets to *)
(* zero.                                                                   *)
(***************************************************************************)
C3_ReversedFailsWithNetTax ==
    (out.called /\ NetsToZero(accruals))
        => /\ (TaxPresent /\ NetNonzero(TaxGiven))
                 => ReturnedError("Got paid tax for reversed dividend")
           /\ (TaxPresent /\ ~SingleCurrency(TaxGiven))
                 => ReturnedError("Failed to process tax")
           /\ (~TaxPresent \/ NetsToZero(TaxGiven)) => ReturnedNothing

\* A reversed dividend was processed with a tax accrual under its key.
C3_Witness ==
    /\ out.called
    /\ accruals = <<Tx(1, "USD", 1000), Tx(2, "USD", -1000)>>
    /\ TaxPresent
    /\ ReturnedError("Got paid tax for reversed dividend")

(***************************************************************************)
(* C5 as stated: the dividend transactions of a key together with the tax  *)
(* transactions of the key always yield one Dividend, whose amount is the  *)
(* sum of the dividend transactions and whose paid tax is the sum of the   *)
(* tax transactions.                                                       *)
(***************************************************************************)
C5_AlwaysOneDividend ==
    (out.called /\ TaxPresent)
        => /\ ReturnedDividend
           /\ out.result.dividend.value.amount.amount = SumAmounts(accruals)
           /\ out.result.dividend.value.paid_tax.amount = SumAmounts(TaxGiven)

(***************************************************************************)
(* C5 amended: when the dividend transactions of a key are in one currency *)
(* and net to a nonzero amount and the tax transactions of the key are in  *)
(* one currency, they yield one Dividend for the key, whose amount is the  *)
(* sum of the dividend transactions and whose paid tax is the sum of the   *)
(* tax transactions.                                                       *)
(***************************************************************************)
C5_OneDividendPerKey ==
    (out.called /\ TaxPresent /\ NetNonzero(accruals) /\ SingleCurrency(TaxGiven))
        => /\ ReturnedDividend
           /\ out.result.dividend.value.date = out.dividend.date
           /\ out.result.dividend.value.issuer = out.dividend.issuer
           /\ out.result.dividend.value.amount
                 = Cash(accruals[1].cash.currency, SumAmounts(accruals))
           /\ out.result.dividend.value.paid_tax.amount = SumAmounts(TaxGiven)

\* Dividend rows 100 and 50 with a tax row 22.5: amount 150, paid tax 22.5.
C5_Witness ==
    /\ out.called
    /\ accruals = <<Tx(1, "USD", 1000), Tx(2, "USD", 500)>>
    /\ TaxPresent
    /\ TaxGiven = <<Tx(1, "USD", 225)>>
    /\ ReturnedDividend
    /\ out.result.dividend.value.amount = Cash("USD", 1500)
    /\ out.result.dividend.value.paid_tax = Cash("USD", 225)

(***************************************************************************)
(* C6: a dividend accrual with a nonzero net amount and no tax accrual     *)
(* under its key yields a Dividend whose paid tax is zero in the currency  *)
(* of the gross amount; with no tax accrual under the key the only error   *)
(* is the dividend's own.                                                  *)
(***************************************************************************)
C6_NoTaxMeansZeroPaidTax ==
    (out.called /\ ~TaxPresent)
        => /\ NetNonzero(accruals)
                 => /\ ReturnedDividend
                    /\ out.result.dividend.value.amount
                          = Cash(accruals[1].cash.currency, SumAmounts(accruals))
                    /\ out.result.dividend.value.paid_tax
                          = Cash(accruals[1].cash.currency, 0)
           /\ SingleCurrency(accruals) => out.result.ok
           /\ ~out.result.ok => ReturnedError("Failed to process dividend")

\* A dividend in EUR was processed while only another key had a tax accrual.
C6_Witness ==
    /\ out.called
    /\ ~TaxPresent
    /\ DOMAIN out.taxes # {}
    /\ NetNonzero(accruals)
    /\ ReturnedDividend
    /\ out.result.dividend.value.paid_tax = Cash("EUR", 0)

\* The sequence with the elements at i and i + 1 exchanged.
Swap(s, i) ==
    [j \in 1..Len(s) |-> IF j = i THEN s[i + 1] ELSE IF j = i + 1 THEN s[i] ELSE s[j]]

\* What a result says of net amounts: the Dividend (or None), or the error.
Outcome(r) ==
    IF r.ok THEN [ok |-> TRUE, dividend |-> r.dividend]
    ELSE [ok |-> FALSE, error |-> r.error]

Resolved(div_accruals, tax_map) ==
    Outcome(process_dividend_accruals(TheDividend, div_accruals, tax_map,
                                      cash_flow_details).result)

Finished == result.tag # "none" /\ ~(result.tag = "err" /\ result.error = "Failed to parse")

DividendIds == { dividends[i].id : i \in 1..Len(dividends) }
Orphans == (DOMAIN taxes) \ DividendIds

CashReported == DOMAIN statement.cash_assets # {}
CashKnown == CashReported \/ base_currency_summary.some

\* Every dividend accrual reconciles with the tax accrual of its key.
AllReconcilable ==
    \A i \in 1..Len(dividends) :
        LET d == dividends[i]
        IN  /\ SingleCurrency(d.accruals)
            /\ d.id \in DOMAIN taxes
                  => /\ SingleCurrency(taxes[d.id])
                     /\ ~(NetsToZero(d.accruals) /\ NetNonzero(taxes[d.id]))

OrphanError == "Unable to find origin operations for the following taxes"

(***************************************************************************)
(* C4: once every dividend key is reconciled, if some tax accrual key was  *)
(* matched by no dividend key, parse fails and the error lists every such  *)
(* (date, issuer) pair, each once; with no such key there is no such       *)
(* error.                                                                  *)
(***************************************************************************)
C4_OrphanTaxesAllListed ==
    (Finished /\ CashKnown /\ AllReconcilable)
        => IF Orphans # {}
           THEN /\ result.tag = "err"
                /\ result.error = OrphanError
                /\ { result.detail[i] : i \in 1..Len(result.detail) } = Orphans
                /\ Len(result.detail) = Cardinality(Orphans)
           ELSE ~(result.tag = "err" /\ result.error = OrphanError)

\* Two tax accruals were left without a dividend and both are listed.
C4_Witness ==
    /\ Finished
    /\ Cardinality(Orphans) = 2
    /\ result.tag = "err"
    /\ result.error = OrphanError
    /\ Len(result.detail) = 2

(***************************************************************************)
(* C8: in a Statement parse returns, when no per-currency cash balance was *)
(* reported and a base currency summary was seen, the cash balances are    *)
(* exactly that summary value; when a per-currency cash balance was        *)
(* reported, the cash balances are those reported, without the summary.    *)
(***************************************************************************)
C8_SummaryIsSoleBalance ==
    result.tag = "ok"
        => /\ (~CashReported /\ base_currency_summary.some)
                 => result.statement.cash_assets
                       = [c \in {base_currency_summary.value.currency} |->
                             base_currency_summary.value.amount]
           /\ CashReported => result.statement.cash_assets = statement.cash_assets

\* A Statement was returned from a base currency summary alone.
C8_Witness ==
    /\ result.tag = "ok"
    /\ ~CashReported
    /\ base_currency_summary.some
    /\ DOMAIN result.statement.cash_assets = {"USD"}

(***************************************************************************)
(* C9: a Statement parse returns has cash balances; when neither a         *)
(* per-currency cash balance nor a base currency summary was seen, parse   *)
(* fails with 'Unable to find base currency summary'.                      *)
(***************************************************************************)
C9_StatementHasCash ==
    /\ result.tag = "ok" => DOMAIN result.statement.cash_assets # {}
    /\ (Finished /\ ~CashKnown)
          => result = ParseErr("Unable to find base currency summary", <<>>)

\* Period and total value were set, but no cash was seen: parse failed.
C9_Witness ==
    /\ Finished
    /\ ~CashKnown
    /\ statement.period.some
    /\ statement.total_value.some
    /\ result.tag = "err"
    /\ result.error = "Unable to find base currency summary"

(***************************************************************************)
(* close in SpecTelemetry, described by the table before and after it.     *)
(***************************************************************************)
Closed == tpc = "closed"
LoadedIds == { hist.loaded[i] : i \in 1..Len(hist.loaded) }
DeletedByClose == hist.table \ db

\* The request was answered with a success status by the deadline.
SuccessByDeadline ==
    /\ thread.status = "ok"
    /\ thread.at <= hist.deadline

(***************************************************************************)
(* C10 as stated: close deletes records only when the request was answered *)
(* with a success status before the deadline, and then exactly the records *)
(* loaded at construction; when the answer is an error status, the request *)
(* fails or the sender has not finished before the deadline, it deletes    *)
(* nothing.                                                                *)
(***************************************************************************)
C10_DeletesOnlyOnSuccessByDeadline ==
    Closed
        => /\ DeletedByClose # {} => /\ SuccessByDeadline
                                     /\ DeletedByClose = LoadedIds
           /\ ~SuccessByDeadline => DeletedByClose = {}

(***************************************************************************)
(* C10 amended: close deletes records only when the request was answered   *)
(* with a success status and the joiner thread had handed that result over *)
(* when close stopped waiting and read it, which may be after the          *)
(* deadline; it then deletes exactly the records loaded at construction    *)
(* (the ids up to the last loaded id).  When the answer is an error        *)
(* status, the request fails, or the sender has not finished when close    *)
(* reads the result, close deletes nothing.                                *)
(***************************************************************************)
C10_DeletesOnlyOnSuccessInHand ==
    Closed
        => /\ DeletedByClose # {}
                 => /\ thread.status = "ok"
                    /\ hist.finished
                    /\ DeletedByClose = LoadedIds
                    /\ LoadedIds = { id \in hist.table : id <= thread.last_record_id }
           /\ thread.status \in {"none", "pending", "status", "fail"}
                 => DeletedByClose = {}
           /\ db \subseteq hist.table

\* The answer came after the deadline and close deleted the loaded records,
\* leaving the record added meanwhile.
C10_Witness ==
    /\ Closed
    /\ DeletedByClose # {}
    /\ thread.at > hist.deadline
    /\ hist.added # {}
    /\ hist.added \subseteq db

(***************************************************************************)
(* The table of SpecTelemetry, described by what was stored and added.     *)
(***************************************************************************)
Constructed == hist.constructed

\* The n most recently added records of S (the n highest ids).
Newest(S, n) == { id \in S : Cardinality({ j \in S : j > id }) < n }

\* The records of a sequence that are still in the table, in its order.
Surviving(order) == SelectSeq(order, LAMBDA id : id \in db)

StrictlyAscending(s) == \A i \in 1..(Len(s) - 1) : s[i] < s[i + 1]

(***************************************************************************)
(* C11: the records added after construction are never deleted by the      *)
(* close of the same Telemetry, whatever the outcome of the send; and the  *)
(* table read in ascending id order gives the surviving records in the     *)
(* order they were added.                                                  *)
(***************************************************************************)
C11_AddedSurviveClose ==
    Constructed
        => /\ hist.added \subseteq db
           /\ Ascending(db) = Surviving(hist.order)

\* The send succeeded, close deleted what was loaded, and the two records
\* added meanwhile are all that is left.
C11_Witness ==
    /\ Closed
    /\ thread.status = "ok"
    /\ LoadedIds # {}
    /\ DeletedByClose = LoadedIds
    /\ Cardinality(hist.added) = MaxAdded
    /\ db = hist.added

(***************************************************************************)
(* C12: right after new the table holds at most max_records records: when  *)
(* more were stored, exactly the max_records most recently added remain,   *)
(* whatever the outcome of the send; when at most max_records were stored, *)
(* new deletes nothing.                                                    *)
(***************************************************************************)
C12_NewKeepsNewest ==
    (Constructed /\ hist.added = {} /\ ~hist.closing)
        => /\ Cardinality(db) <= hist.max_records
           /\ Cardinality(hist.stored) > hist.max_records
                 => /\ db = Newest(hist.stored, hist.max_records)
                    /\ Cardinality(db) = hist.max_records
           /\ Cardinality(hist.stored) <= hist.max_records => db = hist.stored

\* Three records were stored, one was kept, and the send failed.
C12_Witness ==
    /\ Constructed
    /\ hist.added = {}
    /\ ~hist.closing
    /\ Cardinality(hist.stored) = 3
    /\ hist.max_records = 1
    /\ Cardinality(db) = 1
    /\ thread.status = "fail"

(***************************************************************************)
(* C13: a Telemetry sends a request only if a record remains stored at     *)
(* construction after truncation, sends at most one request, and the       *)
(* request carries exactly the retained records in ascending id order;     *)
(* with an empty table no request is sent.                                 *)
(***************************************************************************)
C13_OneRequestOfRetained ==
    Constructed
        => LET retained == Newest(hist.stored, hist.max_records)
           IN  /\ hist.requests <= 1
               /\ thread.status # "none" <=> retained # {}
               /\ hist.requests = 1 => thread.status \in {"ok", "status", "fail"}
               /\ thread.status # "none"
                     => /\ { thread.request[i] : i \in 1..Len(thread.request) } = retained
                        /\ Len(thread.request) = Cardinality(retained)
                        /\ StrictlyAscending(thread.request)
               /\ hist.stored = {} => thread.status = "none" /\ hist.requests = 0

\* Two of three stored records were retained and sent in one request.
C13_Witness ==
    /\ Closed
    /\ Cardinality(hist.stored) = 3
    /\ hist.requests = 1
    /\ Len(thread.request) = 2
    /\ thread.request[1] < thread.request[2]

(***************************************************************************)
(* The steps of the 'state loop in SpecDispatch, described by the row at   *)
(* hand.                                                                   *)
(***************************************************************************)
\* The row the State::Record arm is about to judge.
IdleRow == records[state.rec]

\* What the handlers write into: the builder and the accrual maps.
ParserState == <<dividends, statement, base_currency_summary, taxes, accruals>>

HasDiscriminator(r) == Len(r) >= 2
IsHeaderlessRow(r) == Len(r) >= 2 /\ r[2] = ""

\* The most recent header row before row i with row i's section name, or 0.
MostRecentHeader(i) ==
    IF PrecededByHeader(i)
    THEN CHOOSE h \in 1..(i - 1) :
            /\ IsHeaderRow(records[h]) /\ records[h][1] = records[i][1]
            /\ \A g \in (h + 1)..(i - 1) :
                  ~(IsHeaderRow(records[g]) /\ records[g][1] = records[i][1])
    ELSE 0

\* The loop reads a row while a section is open.
ReadsInBody == state.tag = "Body" /\ records' # records
RowRead == records'[Len(records')]
OpenName == records[state.rec][1]

\* The row read closes the open section.
ClosesSection ==
    /\ ReadsInBody
    /\ HasDiscriminator(RowRead)
    /\ (RowRead[1] # OpenName \/ RowRead[2] = "Header")

(***************************************************************************)
(* C14: while no section is open, a row whose discriminator is neither     *)
(* 'Header' nor empty aborts parsing with 'Invalid record'; and no row is  *)
(* ever delivered to a handler without a governing header of its section.  *)
(***************************************************************************)
C14_IdleDataRowAborts ==
    /\ [](\A k \in 1..Len(calls) :
             /\ GoverningHeader(calls[k].row) > 0
             /\ calls[k].name = records[calls[k].row][1])
    /\ [][(state.tag = "Record" /\ IsDataRow(IdleRow))
             => /\ state' = St("Failed", 0)
                /\ error' = Err("Invalid record", state.rec)
                /\ UNCHANGED <<records, calls, ParserState>>]_vars

\* After a section whose rows were delivered, a data row of another section
\* aborted parsing.
C14_Witness ==
    /\ calls # <<>>
    /\ error.kind = "Invalid record"
    /\ error.row > 0
    /\ IsDataRow(records[error.row])
    /\ state.tag = "Failed"

(***************************************************************************)
(* C15: while no section is open, a row with an empty discriminator is     *)
(* ignored: the dispatcher goes on to read the next row, no handler is     *)
(* invoked, no error is raised, and the builder and the accrual maps are   *)
(* unchanged.                                                              *)
(***************************************************************************)
C15_IdleHeaderlessIgnored ==
    [][(state.tag = "Record" /\ IsHeaderlessRow(IdleRow))
          => /\ state' = St("None", 0)
             /\ UNCHANGED <<records, calls, error, ParserState>>]_vars

\* A headerless row was passed over after a section whose row was stored.
C15_Witness ==
    /\ state = St("None", 0)
    /\ dividends # <<>>
    /\ IsHeaderlessRow(records[Len(records)])
    /\ GoverningHeader(Len(records)) = 0
    /\ error = NoError

(***************************************************************************)
(* C16 as stated: a row with an empty discriminator is ignored wherever it *)
(* appears: it is never delivered to a handler and never aborts parsing.   *)
(***************************************************************************)
C16_HeaderlessIgnoredEverywhere ==
    \A i \in 1..Len(records) :
        IsHeaderlessRow(records[i]) => CallsFor(i) = {} /\ error.row # i

(***************************************************************************)
(* C16 amended: a row with an empty discriminator is ignored (never        *)
(* delivered, never aborting) when no section is open or when it closes an *)
(* open section of another name.  Inside the block of an open section of   *)
(* the same name it is a body row with the discriminator "": skipped when  *)
(* "" is in the skip-list, aborting with 'Invalid data record type' when   *)
(* the handler has an allow-list without "", and delivered to the handler  *)
(* otherwise.                                                              *)
(***************************************************************************)
C16_HeaderlessIgnoredOutsideBlock ==
    \A i \in 1..Len(records) :
        IsHeaderlessRow(records[i])
            => LET parser == ParserFor(records[i][1])
               IN  IF GoverningHeader(i) = 0
                   THEN CallsFor(i) = {} /\ error.row # i
                   ELSE IF InSkipList(parser, "")
                   THEN CallsFor(i) = {} /\ error.row # i
                   ELSE IF OutsideAllowList(parser, "")
                   THEN CallsFor(i) = {} /\ Aborted("Invalid data record type", i)
                   ELSE HandedOnce(i, GoverningHeader(i))

\* A headerless row was delivered to the handler of an unknown section, and
\* one aborted parsing in the block of a section with an allow-list.
C16_Witness ==
    \E j, k \in 1..Len(records) :
        /\ IsHeaderlessRow(records[j]) /\ CallsFor(j) # {}
        /\ IsHeaderlessRow(records[k]) /\ Aborted("Invalid data record type", k)

(***************************************************************************)
(* C17: a row that closes the open section (another section name, or the   *)
(* discriminator 'Header') is not delivered to the closing section's       *)
(* handler and is judged once by the rules for a row read with no section  *)
(* open: a header row opens its section, a row with an empty discriminator *)
(* is ignored, any other row aborts parsing.  The row handed over is the   *)
(* row just read: none is dropped and none is read again.                  *)
(***************************************************************************)
C17_ClosingRowHandedOver ==
    /\ [](state.tag \in {"Record", "Header"} => state.rec = Len(records))
    /\ [][ClosesSection
             => /\ UNCHANGED <<calls, error, ParserState>>
                /\ state'.rec = Len(records')
                /\ state'.tag \in {"Record", "Header"}
                /\ state'.tag = "Header" => RowRead[2] = "Header"]_vars
    /\ [][(state.tag = "Record" /\ HasDiscriminator(IdleRow))
             => /\ UNCHANGED <<records, calls, ParserState>>
                /\ IF IdleRow[2] = "Header"
                   THEN state' = St("Header", state.rec) /\ error' = error
                   ELSE IF IdleRow[2] = ""
                   THEN state' = St("None", 0) /\ error' = error
                   ELSE state' = St("Failed", 0)
                        /\ error' = Err("Invalid record", state.rec)]_vars

\* A header row of another section closed a section and opened its own.
C17_Witness ==
    /\ state = St("Body", 3)
    /\ IsHeaderRow(records[1])
    /\ records[3][1] # records[1][1]
    /\ CallsFor(2) # {}
    /\ CallsFor(3) = {}

(***************************************************************************)
(* C18: a section name may be opened any number of times, and every row    *)
(* delivered is delivered with the field names of the most recent header   *)
(* row of its section, also when that header row appeared inside the       *)
(* section's block.                                                        *)
(***************************************************************************)
C18_FieldsOfMostRecentHeader ==
    \A k \in 1..Len(calls) :
        LET i == calls[k].row
            h == MostRecentHeader(i)
        IN  /\ h > 0
            /\ calls[k].name = records[h][1]
            /\ calls[k].parser = ParserFor(records[h][1])
            /\ calls[k].fields = SubSeq(records[h], 3, Len(records[h]))

\* Two rows of one section were delivered with different field names, the
\* second header row standing inside the block of the first.
C18_Witness ==
    \E k, l \in 1..Len(calls) :
        /\ k < l
        /\ calls[k].name = calls[l].name
        /\ calls[k].fields # calls[l].fields
        /\ \A j \in 1..calls[l].row : records[j][1] = calls[k].name

(***************************************************************************)
(* C19: the rows of a section are contiguous: a data row that does not lie *)
(* in the open block of its section (a data row of another section inside  *)
(* an open block, or a data row of a section whose block was closed by a   *)
(* row of another section name, with no header row of its section since)   *)
(* aborts parsing with 'Invalid record'.                                   *)
(***************************************************************************)
C19_DataRowOutsideBlockAborts ==
    \A i \in 1..Len(records) :
        (IsDataRow(records[i]) /\ GoverningHeader(i) = 0 /\ state # St("Record", i))
            => /\ Aborted("Invalid record", i)
               /\ CallsFor(i) = {}

\* A section was closed by a row of another name; a later data row of the
\* closed section aborted parsing.
C19_Witness ==
    \E i \in 1..Len(records) :
        /\ IsDataRow(records[i])
        /\ PrecededByHeader(i)
        /\ \E j \in 1..(i - 1) : CallsFor(j) # {} /\ records[j][1] = records[i][1]
        /\ Aborted("Invalid record", i)

(***************************************************************************)
(* C20: the rows of an open section whose name is not in the registry are  *)
(* consumed and discarded: whatever the discriminator, they leave the      *)
(* builder and the accrual maps unchanged and raise no error, and the      *)
(* section stays open.                                                     *)
(***************************************************************************)
C20_UnknownSectionRowsDiscarded ==
    [][(/\ ReadsInBody
        /\ OpenName \notin Registry
        /\ HasDiscriminator(RowRead)
        /\ ~ClosesSection)
          => /\ UNCHANGED <<state, error, ParserState>>
             /\ Len(calls') = Len(calls) + 1]_vars

\* Rows of an unknown section with two different discriminators were
\* consumed and the section is still open.
C20_Witness ==
    /\ state.tag = "Body"
    /\ records[state.rec][1] \notin Registry
    /\ \E i, j \in 1..Len(records) :
          /\ CallsFor(i) # {} /\ CallsFor(j) # {}
          /\ records[i][2] # records[j][2]
    /\ error = NoError

(***************************************************************************)
(* C21: when a handler fails on a data row, parsing stops at that row: the *)
(* error is 'Failed to parse' with that row, no later row is read or       *)
(* delivered, and the loop is never left for the end of parse, so no       *)
(* Statement is returned.                                                  *)
(***************************************************************************)
HandlerFails(k) ==
    ~ParserParse(calls[k].parser, calls[k].fields, records[calls[k].row])

C21_HandlerFailureAborts ==
    /\ [](\A k \in 1..Len(calls) :
             HandlerFails(k)
                => /\ state = St("Failed", 0)
                   /\ error = Err("Failed to parse", calls[k].row)
                   /\ k = Len(calls)
                   /\ calls[k].row = Len(records))
    /\ [][state.tag # "Failed"]_vars

\* The second row delivered to the dividends handler failed to parse, after
\* the first had been stored.
C21_Witness ==
    /\ Len(calls) = 2
    /\ HandlerFails(2)
    /\ Len(dividends) = 1
    /\ error = Err("Failed to parse", calls[2].row)

(***************************************************************************)
(* C22: for every finite row stream the loop terminates, having read each  *)
(* row once: every read takes the next row of the source and no row is     *)
(* read again; the end of input ends the loop without error, both with no  *)
(* section open and inside an open section, and the end of parse follows.  *)
(***************************************************************************)
LoopLeft == state.tag \in {"Finalize", "Failed"}

\* A step that reads nothing and is not a read error: records.next() gave None.
EndOfInput ==
    /\ state.tag \in {"None", "Body"}
    /\ records' = records
    /\ error'.kind # "csv error"

C22_LoopTerminates ==
    /\ <>LoopLeft
    /\ [](state.tag = "Finalize" => error = NoError)
    /\ [][EndOfInput
             => /\ state' = St("Finalize", 0)
                /\ UNCHANGED <<calls, error, ParserState>>]_vars
    /\ [][\/ records' = records
          \/ /\ Len(records') = Len(records) + 1
             /\ SubSeq(records', 1, Len(records)) = records]_vars

\* The input ended inside an open section after its rows were delivered.
C22_Witness ==
    /\ state.tag = "Finalize"
    /\ Len(records) = MaxRows
    /\ GoverningHeader(Len(records)) > 0
    /\ CallsFor(Len(records)) # {}
    /\ error = NoError

(***************************************************************************)
(* C23: if parse returns a Statement, every tax accrual key recorded had a *)
(* dividend accrual under the same key, and every tax accrual with a       *)
(* nonzero net amount is the paid tax of exactly one Dividend of the       *)
(* Statement, the only one with that key.                                  *)
(***************************************************************************)
\* The Dividends of the Statement returned that carry the key id.
EmittedFor(id) ==
    { i \in 1..Len(result.statement.dividends) :
         /\ result.statement.dividends[i].date = id.date
         /\ result.statement.dividends[i].issuer = id.issuer }

C23_StatementAccountsForTaxes ==
    result.tag = "ok"
        => /\ DOMAIN taxes \subseteq DividendIds
           /\ \A id \in DOMAIN taxes :
                 NetNonzero(taxes[id])
                    => /\ Cardinality(EmittedFor(id)) = 1
                       /\ \A i \in EmittedFor(id) :
                             result.statement.dividends[i].paid_tax.amount
                                = SumAmounts(taxes[id])

\* A Statement was returned with a Dividend that carries the tax withheld.
C23_Witness ==
    /\ result.tag = "ok"
    /\ \E id \in DOMAIN taxes :
          /\ NetNonzero(taxes[id])
          /\ \E i \in EmittedFor(id) :
                result.statement.dividends[i].paid_tax = Cash("USD", 225)

(***************************************************************************)
(* C24: process_dividend_accruals returns CashFlow entries only when       *)
(* cash_flow_details is set: one entry per dividend transaction with its   *)
(* date and amount, then one entry per tax transaction with the amount     *)
(* negated, each with the dividend's issuer, in the order of the           *)
(* transactions.  Without cash_flow_details the list returned is empty.    *)
(***************************************************************************)
TaxTxs == IF TaxPresent THEN TaxGiven ELSE <<>>

C24_CashFlowsPerTransaction ==
    (out.called /\ out.result.ok)
        => LET flows == out.result.cash_flows
               n     == Len(accruals)
               m     == Len(TaxTxs)
           IN  IF ~cash_flow_details
               THEN flows = <<>>
               ELSE /\ Len(flows) = n + m
                    /\ \A i \in 1..n :
                          /\ flows[i].date = accruals[i].date
                          /\ flows[i].amount = accruals[i].cash
                          /\ flows[i].type_ = [kind |-> "Dividend",
                                               issuer |-> out.dividend.issuer]
                    /\ \A j \in 1..m :
                          /\ flows[n + j].date = TaxTxs[j].date
                          /\ flows[n + j].amount.currency = TaxTxs[j].cash.currency
                          /\ flows[n + j].amount.amount = 0 - TaxTxs[j].cash.amount
                          /\ flows[n + j].type_ = [kind |-> "Tax",
                                                   issuer |-> out.dividend.issuer]

\* Two dividend transactions and a tax transaction gave three entries.
C24_Witness ==
    /\ out.called
    /\ cash_flow_details
    /\ ReturnedDividend
    /\ Len(accruals) = 2
    /\ accruals[1] # accruals[2]
    /\ Len(TaxTxs) = 1
    /\ Len(out.result.cash_flows) = 3

(***************************************************************************)
(* C25 as stated: for a dividend accrual that nets to zero the call gives  *)
(* no Dividend and no CashFlow entries, also with cash_flow_details set;   *)
(* CashFlow entries are returned only with a Dividend.                     *)
(***************************************************************************)
C25_ReversedEmitsNothing ==
    (out.called /\ out.result.ok)
        => /\ NetsToZero(accruals) => ReturnedNothing /\ out.result.cash_flows = <<>>
           /\ out.result.cash_flows # <<>> => ReturnedDividend

(***************************************************************************)
(* C25 amended: for a dividend accrual that nets to zero the call gives no *)
(* Dividend; with cash_flow_details set it still returns the CashFlow      *)
(* entries of the accrual's transactions (and of the transactions of a tax *)
(* accrual that nets to zero too), which sum to zero; without              *)
(* cash_flow_details it returns none.                                      *)
(***************************************************************************)
RECURSIVE SumFlows(_)
SumFlows(flows) ==
    IF flows = <<>> THEN 0 ELSE Head(flows).amount.amount + SumFlows(Tail(flows))

C25_ReversedKeepsCashFlows ==
    (out.called /\ out.result.ok /\ NetsToZero(accruals))
        => /\ ReturnedNothing
           /\ Len(out.result.cash_flows)
                 = IF cash_flow_details THEN Len(accruals) + Len(TaxTxs) ELSE 0
           /\ SumFlows(out.result.cash_flows) = 0

\* A reversed dividend was processed with cash_flow_details set: no
\* Dividend, two entries.
C25_Witness ==
    /\ out.called
    /\ cash_flow_details
    /\ accruals = <<Tx(1, "USD", 1000), Tx(2, "USD", -1000)>>
    /\ ReturnedNothing
    /\ Len(out.result.cash_flows) = 2

(***************************************************************************)
(* C26: when the transactions recorded under a dividend key, or under a    *)
(* tax key, are not all in one currency, parse returns an error and no     *)
(* Statement.  Where the reconciliation reaches such a key (the cash       *)
(* balance is known and the key is the first dividend, or the tax accrual  *)
(* of the first dividend), the error is the one of that key, with its      *)
(* issuer and date; and an error of reconciliation that speaks of          *)
(* a dividend or tax accrual names a key whose accrual has mixed           *)
(* currencies or a reversed dividend with tax.                             *)
(***************************************************************************)
MixedCurrencies(txs) == Cardinality(Currencies(txs)) > 1

MixedDividendKeys ==
    { i \in 1..Len(dividends) : MixedCurrencies(dividends[i].accruals) }

MixedTaxKeys == { id \in DOMAIN taxes : MixedCurrencies(taxes[id]) }

ReconciliationError(kind, id) ==
    result = ParseErr("dividends", Failure(kind, id))

C26_MixedCurrenciesAbort ==
    Finished
        => /\ (MixedDividendKeys # {} \/ MixedTaxKeys # {}) => result.tag = "err"
           /\ (CashKnown /\ 1 \in MixedDividendKeys)
                 => ReconciliationError("Failed to process dividend", dividends[1].id)
           /\ (/\ CashKnown
               /\ dividends # <<>>
               /\ 1 \notin MixedDividendKeys
               /\ dividends[1].id \in MixedTaxKeys)
                 => ReconciliationError("Failed to process tax", dividends[1].id)
           /\ \A i \in 1..Len(dividends) :
                 /\ ReconciliationError("Failed to process dividend", dividends[i].id)
                       => i \in MixedDividendKeys
                 /\ ReconciliationError("Failed to process tax", dividends[i].id)
                       => dividends[i].id \in MixedTaxKeys

\* A dividend in one currency met a tax accrual in two: parse failed naming
\* the tax key.
C26_Witness ==
    /\ Len(dividends) = 1
    /\ MixedDividendKeys = {}
    /\ MixedTaxKeys = {dividends[1].id}
    /\ ReconciliationError("Failed to process tax", dividends[1].id)

(***************************************************************************)
(* C27 as stated: at the end of input the dividends are reconciled before  *)
(* the cash balance is looked for, so with an error of reconciliation and  *)
(* no cash information parse returns the error of reconciliation.          *)
(***************************************************************************)
ReconciliationFails == ~AllReconcilable \/ Orphans # {}

ReconciliationErrors == {"dividends", OrphanError}

C27_ReconciliationErrorFirst ==
    (Finished /\ ReconciliationFails /\ ~CashKnown)
        => result.tag = "err" /\ result.error \in ReconciliationErrors

(***************************************************************************)
(* C27 amended: at the end of input the cash balance is looked for before  *)
(* the dividends are reconciled: with an error of reconciliation and no    *)
(* cash information parse returns 'Unable to find base currency summary';  *)
(* with cash information it returns the error of reconciliation (that of a *)
(* dividend key before that of the taxes left), also when the statement    *)
(* period or the total value is missing.                                   *)
(***************************************************************************)
C27_CashFallbackFirst ==
    (Finished /\ ReconciliationFails)
        => /\ result.tag = "err"
           /\ IF ~CashKnown
              THEN result = ParseErr("Unable to find base currency summary", <<>>)
              ELSE result.error = IF AllReconcilable THEN OrphanError ELSE "dividends"

\* A tax accrual without a dividend and no cash information: parse failed
\* for the cash.
C27_Witness ==
    /\ Finished
    /\ Orphans # {}
    /\ ~CashKnown
    /\ result = ParseErr("Unable to find base currency summary", <<>>)

(***************************************************************************)
(* C28: get returns a Statement exactly when the statement period and the  *)
(* total value have both been set; otherwise it fails with '<field> is     *)
(* missing' for an unset field, the statement period when both are unset.  *)
(* The Statement returned has the period and total value stored and the    *)
(* deposits, dividends and instrument names accumulated, unchanged.        *)
(***************************************************************************)
Missing(name) == ParseErr("missing", <<name, "is missing">>)

C28_GetNeedsBothFields ==
    result # NotReturned
        => /\ result.tag = "ok" <=> (statement.period.some /\ statement.total_value.some)
           /\ ~statement.period.some => result = Missing("statement period")
           /\ (statement.period.some /\ ~statement.total_value.some)
                 => result = Missing("total value")
           /\ result.tag = "ok"
                 => /\ result.statement.period = statement.period.value
                    /\ result.statement.total_value = statement.total_value.value
                    /\ result.statement.deposits = statement.deposits
                    /\ result.statement.dividends = statement.dividends
                    /\ result.statement.instrument_names = statement.instrument_names

\* get returned a Statement with a deposit, a dividend and an instrument
\* name in it.
C28_Witness ==
    /\ result.tag = "ok"
    /\ Len(result.statement.deposits) = 1
    /\ Len(result.statement.dividends) = 1
    /\ DOMAIN result.statement.instrument_names = {"AAA"}

(***************************************************************************)
(* C29: a write to a set-once field that holds a value fails with          *)
(* 'Duplicate <field>', a write to an unset field succeeds, and after any  *)
(* sequence of writes the field holds the first value written (none when   *)
(* nothing was written).                                                   *)
(***************************************************************************)
WritesTo(name) == { k \in 1..Len(calls) : calls[k].field = name }

FirstWrite(name) == CHOOSE k \in WritesTo(name) : \A j \in WritesTo(name) : k <= j

HoldsFirstWritten(name, option) ==
    IF WritesTo(name) = {} THEN option = None
    ELSE option = Some(calls[FirstWrite(name)].value)

C29_SetOnce ==
    /\ HoldsFirstWritten("statement period", statement.period)
    /\ HoldsFirstWritten("total value", statement.total_value)
    /\ \A k \in 1..Len(calls) :
          IF k = FirstWrite(calls[k].field)
          THEN calls[k].ok
          ELSE ~calls[k].ok /\ calls[k].error = <<"Duplicate", calls[k].field>>

\* The period was written twice with different values: the second write
\* failed and the first value is held.
C29_Witness ==
    /\ Len(calls) >= 2
    /\ calls[1].field = "statement period"
    /\ calls[2].field = "statement period"
    /\ calls[1].value # calls[2].value
    /\ ~calls[2].ok
    /\ statement.period = Some(calls[1].value)

(***************************************************************************)
(* C30: the deadline Telemetry::new gives the sender is the instant of     *)
(* construction, and that instant plus flush_timeout when the number of    *)
(* records loaded is a multiple of flush_threshold.  Without the extra     *)
(* time close leaves its loop as soon as the instant of construction is    *)
(* past, whether the sender has reported or not; and whenever close        *)
(* returns with the sender still running, the deadline is past.            *)
(***************************************************************************)
ExtraTime ==
    IF Len(hist.loaded) % hist.flush_threshold = 0 THEN hist.flush_timeout ELSE 0

Closing == hist.constructed /\ "deadline" \in DOMAIN hist

C30_ExtraTimeOnlyWhenAccumulated ==
    hist.constructed
        => /\ sender.some => sender.value.deadline = hist.created + ExtraTime
           /\ Closing => hist.deadline = hist.created + ExtraTime
           /\ (tpc = "waiting" /\ ExtraTime = 0 /\ now > hist.created)
                 => now > hist.deadline
           /\ (Closing /\ tpc = "closed" /\ thread.status = "pending")
                 => now > hist.created + ExtraTime

\* No extra time was given; close returned one tick after new with the
\* sender still running, and deleted nothing.
C30_Witness ==
    /\ Closing
    /\ tpc = "closed"
    /\ ExtraTime = 0
    /\ thread.status = "pending"
    /\ now = hist.created + 1
    /\ hist.value = None

(***************************************************************************)
(* C31 as stated: the Dividends of a Statement are in the order in which   *)
(* their keys were first observed, and the error for the taxes left lists  *)
(* them in the order in which their keys were first recorded, so that the  *)
(* same rows always give the same result and the same error.               *)
(***************************************************************************)
RECURSIVE EmittedKeys(_)
EmittedKeys(vec) ==
    IF vec = <<>> THEN <<>>
    ELSE (IF NetNonzero(Head(vec).accruals) THEN <<Head(vec).id>> ELSE <<>>)
            \o EmittedKeys(Tail(vec))

KeysOf(divs) == [i \in 1..Len(divs) |-> Id(divs[i].date, divs[i].issuer)]

OrphansAsRecorded ==
    LET IsOrphan(c) == c.id \in Orphans
        left == SelectSeq(calls, IsOrphan)
    IN  [i \in 1..Len(left) |-> left[i].id]

C31_FirstObservationOrder ==
    Finished
        => /\ result.tag = "ok"
                 => KeysOf(result.statement.dividends) = EmittedKeys(dividends)
           /\ (result.tag = "err" /\ result.error = OrphanError)
                 => result.detail = OrphansAsRecorded

\* Two tax accruals were left without a dividend and the error lists them
\* in the reverse of the order in which they were recorded.
C31_Witness ==
    /\ Finished
    /\ result.tag = "err"
    /\ result.error = OrphanError
    /\ Len(OrphansAsRecorded) = 2
    /\ result.detail = <<OrphansAsRecorded[2], OrphansAsRecorded[1]>>

(***************************************************************************)
(* C32: a row with fewer than two fields aborts parsing with 'Invalid      *)
(* record', whether it is read while no section is open or inside the      *)
(* block of a section, whatever its section name: it is the last row read, *)
(* it is delivered to no handler, and the step that judges it fails.       *)
(***************************************************************************)
IsShortRow(r) == Len(r) < 2

C32_ShortRowAborts ==
    /\ [](\A i \in 1..Len(records) :
             IsShortRow(records[i])
                => /\ i = Len(records)
                   /\ CallsFor(i) = {}
                   /\ state = St("Record", i) \/ Aborted("Invalid record", i))
    /\ [][(state.tag = "Record" /\ IsShortRow(IdleRow))
             => /\ state' = St("Failed", 0)
                /\ error' = Err("Invalid record", state.rec)
                /\ UNCHANGED <<records, calls, ParserState>>]_vars
    /\ [][(ReadsInBody /\ IsShortRow(RowRead))
             => /\ state' = St("Failed", 0)
                /\ error' = Err("Invalid record", Len(records'))
                /\ UNCHANGED <<calls, ParserState>>]_vars

\* A row with the section name alone aborted parsing inside the block of
\* that section, after a row of the block was delivered.
C32_Witness ==
    /\ Len(records) = 3
    /\ IsHeaderRow(records[1])
    /\ CallsFor(2) # {}
    /\ IsShortRow(records[3])
    /\ records[3][1] = records[1][1]
    /\ Aborted("Invalid record", 3)

(***************************************************************************)
(* C33 as stated: every Dividend process_dividend_accruals returns has its *)
(* paid tax in the currency of its gross amount.                           *)
(***************************************************************************)
C33_PaidTaxInGrossCurrency ==
    (out.called /\ ReturnedDividend)
        => out.result.dividend.value.paid_tax.currency
              = out.result.dividend.value.amount.currency

(***************************************************************************)
(* C33 amended: the gross amount of a Dividend returned is in the one      *)
(* currency of the dividend accrual's transactions; its paid tax is in the *)
(* one currency of the matching tax accrual's transactions when that       *)
(* accrual nets to a nonzero amount, whether or not that is the currency   *)
(* of the gross amount, and is zero in the currency of the gross amount    *)
(* otherwise.                                                              *)
(***************************************************************************)
C33_PaidTaxInItsOwnCurrency ==
    (out.called /\ ReturnedDividend)
        => LET d == out.result.dividend.value
           IN  /\ Currencies(accruals) = {d.amount.currency}
               /\ IF TaxPresent /\ NetNonzero(TaxGiven)
                  THEN /\ Currencies(TaxGiven) = {d.paid_tax.currency}
                       /\ d.paid_tax.amount = SumAmounts(TaxGiven)
                  ELSE d.paid_tax = Cash(d.amount.currency, 0)

\* A dividend in USD was returned with its paid tax in EUR.
C33_Witness ==
    /\ out.called
    /\ ReturnedDividend
    /\ out.result.dividend.value.amount.currency = "USD"
    /\ out.result.dividend.value.paid_tax = Cash("EUR", 225)

====
